---- MODULE Spec2Model ----
(***************************************************************************)
(* The import resolver of serverlesspack (src/imports_resolver.py).        *)
(*                                                                         *)
(* Representation.  A path string is represented by its pathlib parts: a   *)
(* sequence of names, an absolute path starting with the part ROOT ("/").  *)
(* A name is the pair <<stem, suffix>> that pathlib splits it into, so     *)
(* that Path.suffix and Path.with_suffix are computed, not looked up.  The *)
(* strings "" and "." are both the empty sequence, as Path(".").parts is.  *)
(* A dotted module name is the sequence of its segments.  An Optional      *)
(* value is a set: {} is None and {x} is x.                                *)
(***************************************************************************)
EXTENDS Integers, Sequences, FiniteSets, Bags, TLC

(***************************************************************************)
(* Bounds of the model.                                                    *)
(***************************************************************************)
\* the longest base path, in parts, given to _path_to_module_path
MaxPathParts == 3
\* the longest dotted module name, in segments, given to it
MaxNameSegments == 3
\* the longest path, in parts, given to get_distribution_name_of_package
MaxFilepathParts == 4
\* the most import statements of the code given to from_code
MaxStatements == 1
\* the most import_folder calls made on one resolver
MaxImportFolderCalls == 1

(***************************************************************************)
(* Names and paths.                                                        *)
(***************************************************************************)
N(s) == <<s, "">>
F(stem, suffix) == <<stem, suffix>>
ROOT == N("/")
DOT == N(".")
DOTDOT == N("..")
None == {}
Some(x) == {x}
Get(optional) == CHOOSE x \in optional : TRUE

\* pathlib: PurePath.suffix
Suffix(path) == IF Len(path) = 0 THEN "" ELSE path[Len(path)][2]

\* pathlib: PurePath.with_suffix
WithSuffix(path, suffix) ==
    [path EXCEPT ![Len(path)] = F(path[Len(path)][1], suffix)]

\* pathlib: PurePath.__eq__ with a str operand is NotImplemented, and the
\* comparison a == "..." then evaluates to False whatever the path is
PathEqualsStr(path, str) == FALSE

IsAbs(path) == Len(path) > 0 /\ path[1] = ROOT

\* os.path.normpath on parts: ".." removes the part before it, and stays
\* at the root
RECURSIVE NormInto(_, _)
NormInto(done, rest) ==
    IF rest = <<>> THEN done
    ELSE IF Head(rest) = DOT THEN NormInto(done, Tail(rest))
    ELSE IF Head(rest) = DOTDOT
         THEN IF done = <<>> \/ done[Len(done)] = DOTDOT
              THEN NormInto(Append(done, DOTDOT), Tail(rest))
              ELSE IF done = <<ROOT>> THEN NormInto(done, Tail(rest))
              ELSE NormInto(SubSeq(done, 1, Len(done) - 1), Tail(rest))
    ELSE NormInto(Append(done, Head(rest)), Tail(rest))

NormPath(path) == NormInto(<<>>, path)

\* os.path.dirname
Dirname(path) == IF Len(path) = 0 THEN <<>> ELSE SubSeq(path, 1, Len(path) - 1)

\* seq[1:]
DropFirst(seq) == IF seq = <<>> THEN <<>> ELSE Tail(seq)

\* os.path.join(a, b) for a relative b
Join(a, b) == a \o b

(***************************************************************************)
(* The state of a run.                                                     *)
(***************************************************************************)
VARIABLES
    system_os,          \* platform.system().lower()
    absolute_origin,    \* whether importlib makes a spec's location absolute
    parents_have_parts, \* whether pathlib's Path.parents has the attribute
                        \* _parts
    cache_tag,          \* sys.implementation.cache_tag
    dont_write_bytecode, \* sys.dont_write_bytecode
    program,            \* which source files are on disk
    code_file,          \* the file written by from_code, if any
    bytecode,           \* the bytecode files the imports have written
    pc,                 \* "new", "ready" (constructed), "walking", "done"
                        \* (process_file has returned) or "failed"
    folder_calls,       \* how many import_folder calls were made
    error,              \* the exception that ended the run, if any
    root_filepath,
    target_os,
    included_files_absolute_paths,
    included_packages_names,
    stack,              \* the active process_file calls, innermost last
    walks,              \* bag of the files parsed and walked so far
    call                \* a call of a static function: arguments and result

env ==
    <<system_os, absolute_origin, parents_have_parts, cache_tag,
      dont_write_bytecode, program>>
vars ==
    <<system_os, absolute_origin, parents_have_parts, cache_tag,
      dont_write_bytecode, program, code_file, bytecode, pc, folder_calls,
      error, root_filepath, target_os, included_files_absolute_paths,
      included_packages_names, stack, walks, call>>

(***************************************************************************)
(* The environment of a run: the working directory, the files on disk,     *)
(* the installed distributions and what the ambient loader finds.          *)
(***************************************************************************)
Proj == <<ROOT, N("proj")>>
\* os.getcwd()
Cwd == Proj
SitePackages == Proj \o <<N("venv"), N("site-packages")>>
MainPy == Proj \o <<F("main", ".py")>>
HelpersPy == Proj \o <<F("helpers", ".py")>>
PkgInitPy == Proj \o <<N("pkg"), F("__init__", ".py")>>
PkgModPy == Proj \o <<N("pkg"), F("mod", ".py")>>
DataTxt == Proj \o <<F("data", ".txt")>>
PkgSchema == Proj \o <<N("pkg"), F("schema", ".json")>>
RequestsInitPy == SitePackages \o <<N("requests"), F("__init__", ".py")>>
RequestsUtilsPy == SitePackages \o <<N("requests"), F("utils", ".py")>>
OrphanInitPy == SitePackages \o <<N("orphan"), F("__init__", ".py")>>
SixPy == SitePackages \o <<F("six", ".py")>>
FastCore(suffix) == SitePackages \o <<N("fast"), F("core", suffix)>>
SoloNative(suffix) == Proj \o <<N("solo"), F("native", suffix)>>
\* os.__file__
OsFile == <<ROOT, N("usr"), N("lib"), N("python3"), F("os", ".py")>>
PipInitPy ==
    <<ROOT, N("usr"), N("lib"), N("python3"), N("site-packages"), N("pip"),
      F("__init__", ".py")>>
\* sys.argv[0]: a driver script beside the root file
RunPy == Proj \o <<F("run", ".py")>>
Argv0 == RunPy
\* serverless_pack_root_folder = get_serverless_pack_root_folder()
serverless_pack_root_folder == <<ROOT, N("pack")>>

\* platform.system().lower() on the hosts considered
HostOSs == {"windows", "linux", "darwin"}
\* the suffix of the extension modules the host's loader loads
HostCompiledSuffix(os) == IF os = "windows" THEN ".pyd" ELSE ".so"

\* the regular files on disk; solo/native is built for the host only,
\* fast/core ships both binaries; the file from_code wrote and the bytecode
\* files the imports wrote are on disk from then on
Disk(host) ==
    { MainPy, HelpersPy, PkgInitPy, PkgModPy, PkgSchema, DataTxt, RequestsInitPy,
      RequestsUtilsPy, OrphanInitPy, SixPy, FastCore(".pyd"), FastCore(".so"),
      SoloNative(HostCompiledSuffix(host)), OsFile, PipInitPy, RunPy }
    \cup { written.path : written \in code_file }
    \cup bytecode

Dirs(host) ==
    UNION { { SubSeq(f, 1, k) : k \in 1..(Len(f) - 1) } : f \in Disk(host) }

(***************************************************************************)
(* os.path on parts.                                                       *)
(***************************************************************************)
\* os.path.abspath
AbsPath(path) == IF IsAbs(path) THEN NormPath(path) ELSE NormPath(Join(Cwd, path))

RECURSIVE CommonLen(_, _)
CommonLen(a, b) ==
    IF a = <<>> \/ b = <<>> \/ Head(a) # Head(b) THEN 0
    ELSE 1 + CommonLen(Tail(a), Tail(b))

\* os.path.relpath(path, start); the result "." is the empty sequence
RelPath(path, start) ==
    LET p == AbsPath(path)
        s == AbsPath(start)
        c == CommonLen(p, s)
    IN  [i \in 1..(Len(s) - c) |-> DOTDOT] \o SubSeq(p, c + 1, Len(p))

\* os.path.exists / Path.exists
Exists(path, host) == AbsPath(path) \in Disk(host) \cup Dirs(host)

\* Path.is_file
IsFile(path, host) == AbsPath(path) \in Disk(host)

(***************************************************************************)
(* The source files and the ambient loader.                                *)
(***************************************************************************)
\* the names the code given to from_code imports
ModuleNames ==
    { <<"os">>, <<"helpers">>, <<"pkg", "mod">>, <<"requests">>,
      <<"fast", "core">>, <<"solo", "native">>, <<"missing">>, <<"broken">> }
\* the names the listed programs import besides
ListedModuleNames ==
    { <<"sys">>, <<"main">>, <<"pkg">>, <<"requests", "utils">>, <<"six">>,
      <<"pip">>, <<"orphan">> }

RECURSIVE SeqsUpTo(_, _)
SeqsUpTo(S, n) ==
    IF n = 0 THEN {<<>>}
    ELSE LET shorter == SeqsUpTo(S, n - 1)
         IN  shorter \cup { Append(q, x) : q \in shorter, x \in S }

\* the code a caller gives to from_code, as the names its import statements
\* import, in order
Codes == SeqsUpTo(ModuleNames, MaxStatements)

\* The source files on disk: the names each file imports, in the order of
\* its statements; a file that is not listed holds no import statement.
\* "code": no file imports anything, the caller gives the code of the root
\* to from_code; "scenario": the root imports os and helpers, helpers
\* imports requests, whose entry file imports requests.utils; "native": the
\* root imports two extension modules; "package": the root imports pkg.mod,
\* then pkg, whose __init__.py imports helpers; "installed": the root
\* imports a built-in module, a module that lies directly in site-packages,
\* one installed beside the standard library and one that lies in a folder
\* of site-packages that no distribution provides; "twice": the root holds every import
\* statement two times in a row; "cycle": the root imports itself; "chain":
\* the root imports helpers, which imports a name that is not found.
Programs ==
    {"code", "scenario", "native", "package", "installed", "twice", "cycle",
     "chain"}
Source(filepath) ==
    CASE \E written \in code_file : written.path = AbsPath(filepath) ->
            Get(code_file).code
      [] program = "scenario" /\ AbsPath(filepath) = MainPy ->
            << <<"os">>, <<"helpers">> >>
      [] program = "scenario" /\ AbsPath(filepath) = HelpersPy ->
            << <<"requests">> >>
      [] program = "scenario" /\ AbsPath(filepath) = RequestsInitPy ->
            << <<"requests", "utils">> >>
      [] program = "native" /\ AbsPath(filepath) = MainPy ->
            << <<"fast", "core">>, <<"solo", "native">> >>
      [] program = "package" /\ AbsPath(filepath) = MainPy ->
            << <<"pkg", "mod">>, <<"pkg">> >>
      [] program = "package" /\ AbsPath(filepath) = PkgInitPy ->
            << <<"helpers">> >>
      [] program = "installed" /\ AbsPath(filepath) = MainPy ->
            << <<"sys">>, <<"six">>, <<"pip">>, <<"orphan">> >>
      [] program = "twice" /\ AbsPath(filepath) = MainPy ->
            << <<"helpers">>, <<"helpers">>, <<"requests">>, <<"requests">>,
               <<"solo", "native">>, <<"solo", "native">>,
               <<"fast", "core">>, <<"fast", "core">>,
               <<"missing">>, <<"missing">> >>
      [] program = "cycle" /\ AbsPath(filepath) = MainPy ->
            << <<"main">> >>
      [] program = "chain" /\ AbsPath(filepath) = MainPy ->
            << <<"helpers">> >>
      [] program = "chain" /\ AbsPath(filepath) = HelpersPy ->
            << <<"missing">> >>
      [] OTHER -> <<>>

\* what the finders of the ambient loader find for a name: a module with
\* its __file__, a module without one (a built-in module, a namespace
\* package), nothing, or a module whose load raises an exception of its own
FindModule(name, host) ==
    CASE name = <<"os">> -> [kind |-> "module", file |-> OsFile]
      [] name = <<"sys">> -> [kind |-> "builtin", file |-> <<>>]
      [] name = <<"helpers">> -> [kind |-> "module", file |-> HelpersPy]
      [] name = <<"pkg", "mod">> -> [kind |-> "module", file |-> PkgModPy]
      [] name = <<"pkg">> -> [kind |-> "module", file |-> PkgInitPy]
      [] name = <<"main">> -> [kind |-> "module", file |-> MainPy]
      [] name = <<"requests">> -> [kind |-> "module", file |-> RequestsInitPy]
      [] name = <<"requests", "utils">> ->
            [kind |-> "module", file |-> RequestsUtilsPy]
      [] name = <<"six">> -> [kind |-> "module", file |-> SixPy]
      [] name = <<"fast">> -> [kind |-> "builtin", file |-> <<>>]
      [] name = <<"fast", "core">> ->
            [kind |-> "module", file |-> FastCore(HostCompiledSuffix(host))]
      [] name = <<"solo">> -> [kind |-> "builtin", file |-> <<>>]
      [] name = <<"solo", "native">> ->
            [kind |-> "module", file |-> SoloNative(HostCompiledSuffix(host))]
      [] name = <<"pip">> -> [kind |-> "module", file |-> PipInitPy]
      [] name = <<"orphan">> -> [kind |-> "module", file |-> OrphanInitPy]
      [] name = <<"broken">> -> [kind |-> "error", file |-> <<>>]
      [] OTHER -> [kind |-> "not_found", file |-> <<>>]

\* The import system executes what it finds.  RunStatements is the
\* execution of import statements, from the k-th prefix of the name of the
\* i-th statement on, `loaded` being the source files loaded so far: a
\* dotted name is imported prefix by prefix, the parent packages first; a
\* source file that is found and not loaded already (sys.modules) is
\* loaded and executed, and the first import statement of it that fails
\* ends the import with that failure.  The result is the outcome, "ok",
\* "not_found" (ModuleNotFoundError) or "error" (another exception), and
\* the source files loaded.
RECURSIVE RunStatements(_, _, _, _, _)
RunStatements(statements, i, k, host, loaded) ==
    IF i > Len(statements) THEN [outcome |-> "ok", loaded |-> loaded]
    ELSE IF k > Len(statements[i])
    THEN RunStatements(statements, i + 1, 1, host, loaded)
    ELSE LET found == FindModule(SubSeq(statements[i], 1, k), host)
         IN  IF found.kind \in {"not_found", "error"}
             THEN [outcome |-> found.kind, loaded |-> loaded]
             ELSE LET executed ==
                          IF /\ found.kind = "module"
                             /\ Suffix(found.file) = ".py"
                             /\ found.file \notin loaded
                          THEN RunStatements(Source(found.file), 1, 1, host,
                                             loaded \cup {found.file})
                          ELSE [outcome |-> "ok", loaded |-> loaded]
                  IN  IF executed.outcome # "ok" THEN executed
                      ELSE RunStatements(statements, i, k + 1, host,
                                         executed.loaded)

\* importlib.import_module(name): a module with its __file__, a module
\* without one, ModuleNotFoundError, or another exception raised while the
\* module is loaded
ImportLibImportModule(name, host) ==
    LET outcome == RunStatements(<<name>>, 1, 1, host, {}).outcome
    IN  IF outcome = "ok" THEN FindModule(name, host)
        ELSE [kind |-> outcome, file |-> <<>>]

\* the path of the bytecode file of a source file:
\* <directory>/__pycache__/<stem>.<cache_tag>.pyc
BytecodeFile(source) ==
    Dirname(source) \o
        <<N("__pycache__"),
          F(source[Len(source)][1] \o "." \o cache_tag, ".pyc")>>

\* the folder of the interpreter's installation, whose source files have
\* their bytecode since they were installed
InstallationFolder == Dirname(Dirname(OsFile))

\* the bytecode files importlib.import_module(name) writes: the one of
\* every source file it loads outside the installation, whether the
\* import succeeds or fails, unless the interpreter writes no bytecode
BytecodeWritten(name, host) ==
    IF dont_write_bytecode THEN {}
    ELSE { BytecodeFile(source) :
             source \in { f \in RunStatements(<<name>>, 1, 1, host, {}).loaded :
                            SubSeq(f, 1, Len(InstallationFolder))
                                # InstallationFolder } }

\* importlib_metadata.packages_distributions(): importable top-level name
\* to the names of the distributions that provide it
PackagesDistributions(name) ==
    CASE name = N("requests") -> Some(<<"requests">>)
      [] name = N("fast") -> Some(<<"fastlib">>)
      [] name = N("pip") -> Some(<<"pip">>)
      [] OTHER -> None

DistributionNames == {"requests", "fastlib", "pip"}

(***************************************************************************)
(* The pure functions of the resolver.                                     *)
(***************************************************************************)
\* python_base_libs_folder_path = str(Path(os.__file__).parent.parent)
python_base_libs_folder_path == Dirname(Dirname(OsFile))

\* the names of the environment that have a given name as a proper string
\* prefix (none of the names above has)
ProperPrefixes == {}
NameStartsWith(name, prefix) == name = prefix \/ <<name, prefix>> \in ProperPrefixes

\* as StrContains, but the test of equal strings
StrEquals(path, needle) == path = needle

\* str.__contains__ of two path strings, needle absolute: the needle's
\* parts after the root occur at consecutive parts of the path, the last of
\* them as a prefix of the part it meets
StrContains(path, needle) ==
    LET k == Len(needle) - 1
    IN  \E i \in 2..(Len(path) - k + 1) :
            /\ \A j \in 1..(k - 1) : path[i + j - 1] = needle[j + 1]
            /\ NameStartsWith(path[i + k - 1], needle[k + 1])

\* the loop over parents_parts, from index i (1-based here)
RECURSIVE ScanParentsParts(_, _)
ScanParentsParts(parents_parts, i) ==
    IF i > Len(parents_parts) THEN None
    ELSE IF parents_parts[i] = N("site-packages")
         THEN IF Len(parents_parts) - 1 > i
              THEN Some(parents_parts[i + 1])
              ELSE None
    ELSE ScanParentsParts(parents_parts, i + 1)

\* parents_parts = getattr(Path(package_filepath).parents, '_parts', None):
\* the parts of the path where the attribute exists, where it does not the
\* loop is skipped and the result is None
get_distribution_name_of_package(package_filepath) ==
    IF parents_have_parts THEN ScanParentsParts(package_filepath, 1) ELSE None

_remove_junk_start_of_path(path) ==
    IF Len(path) > 0 /\ path[1] \in {DOT, DOTDOT} THEN Tail(path) ELSE path

\* Path(module_name.replace(".", "/")).parts
ModuleNameParts(module_name) == [i \in 1..Len(module_name) |-> N(module_name[i])]

\* the loop of _path_to_module_path over the base path parts, from index i
\* (0-based, as in the source)
RECURSIVE StripMatching(_, _, _, _, _)
StripMatching(i, base_parts, source_parts, cleaned_parts, matching_paths) ==
    IF i >= Len(base_parts) THEN cleaned_parts
    ELSE IF Len(source_parts) > i /\ matching_paths
         THEN IF base_parts[i + 1] = source_parts[i + 1]
              THEN StripMatching(i + 1, base_parts, source_parts,
                                 SubSeq(source_parts, i + 2, Len(source_parts)),
                                 TRUE)
              ELSE StripMatching(i + 1, base_parts, source_parts,
                                 cleaned_parts, FALSE)
    ELSE StripMatching(i + 1, base_parts, source_parts, cleaned_parts,
                       matching_paths)

\* as _path_to_module_path, but the first segment of the module name is kept
_path_to_module_path_keeping_first(base_path, module_name) ==
    LET cleaned_base_path_parts == _remove_junk_start_of_path(base_path)
    IN  IF Len(cleaned_base_path_parts) > 0
        THEN LET source_module_name_parts == ModuleNameParts(module_name)
                 cleaned == StripMatching(0, Tail(cleaned_base_path_parts),
                                          source_module_name_parts,
                                          source_module_name_parts, TRUE)
             IN  Some([i \in 1..Len(cleaned) |-> cleaned[i][1]])
        ELSE None

\* the result is the dotted name as the sequence of its segments
_path_to_module_path(base_path, module_name) ==
    LET cleaned_base_path_parts == _remove_junk_start_of_path(base_path)
    IN  IF Len(cleaned_base_path_parts) > 0
        THEN LET source_module_name_parts == DropFirst(ModuleNameParts(module_name))
                 cleaned == StripMatching(0, Tail(cleaned_base_path_parts),
                                          source_module_name_parts,
                                          source_module_name_parts, TRUE)
             IN  Some([i \in 1..Len(cleaned) |-> cleaned[i][1]])
        ELSE None

(***************************************************************************)
(* The constructor's tables and arguments.                                 *)
(***************************************************************************)
\* as TARGETS_OS, with every host system supported
TARGETS_OS_any_host == HostOSs

TARGETS_OS == {"windows", "linux"}
\* OS_TO_COMPILED_EXTENSIONS, as the suffix of a file name
OS_TO_COMPILED_EXTENSIONS(os) == IF os = "windows" THEN ".pyd" ELSE ".so"

NoError == [exception |-> "", nested |-> FALSE]

\* the root file paths a caller passes: absolute, relative to the working
\* directory, of a file that does not exist, of a data file
MainPyRelative == <<F("main", ".py")>>
NoSuchPy == Proj \o <<F("nosuch", ".py")>>
RootFilepaths == {MainPy, MainPyRelative, NoSuchPy, DataTxt}
TargetOsArguments == {None, Some("windows"), Some("linux"), Some("darwin")}

\* whether the file of a frame has a statement left that imports a name
HasNextImport(frame) == frame.pos < Len(Source(frame.file))

\* whether the statements of the file of a frame are exhausted
AtEndOfFile(frame) == frame.pos = Len(Source(frame.file))

\* the frame of a file after one more of its statements
NextStatement(frame) == [frame EXCEPT !.pos = @ + 1]

\* the names the statement handlers pass to add_package_by_name for the
\* next statement of a file being walked
HandlerImportedNames(frame) == {Source(frame.file)[frame.pos + 1]}

\* no static function is being called
NoCall == [function |-> "", base_path |-> <<>>, module_name |-> <<>>,
           returned |-> FALSE, result |-> None]

\* the builds of Python, 3.8, 3.11 and 3.13, as <<absolute_origin,
\* parents_have_parts, cache_tag>>: importlib makes a spec's location
\* absolute from 3.9 on, and Path.parents has no attribute _parts from 3.12
\* on
PythonBuilds ==
    { <<FALSE, TRUE, "cpython-38">>, <<TRUE, TRUE, "cpython-311">>,
      <<TRUE, FALSE, "cpython-313">> }

Init ==
    /\ system_os \in HostOSs
    /\ \E build \in PythonBuilds :
            /\ absolute_origin = build[1]
            /\ parents_have_parts = build[2]
            /\ cache_tag = build[3]
    /\ dont_write_bytecode \in BOOLEAN
    /\ program \in Programs
    /\ code_file = None
    /\ bytecode = {}
    /\ pc = "new"
    /\ folder_calls = 0
    /\ error = NoError
    /\ root_filepath = <<>>
    /\ target_os = ""
    /\ included_files_absolute_paths = {}
    /\ included_packages_names = {}
    /\ stack = <<>>
    /\ walks = EmptyBag
    /\ call = NoCall

(***************************************************************************)
(* Resolver.__init__                                                       *)
(***************************************************************************)
\* the constructor, for what it does to the resolver
ResolverInit(root, target) ==
    /\ root_filepath' = root
    /\ LET effective == IF target # None THEN Get(target) ELSE system_os
       IN  /\ target_os' = effective
           /\ IF effective \in TARGETS_OS
              THEN /\ included_packages_names' = {}
                   /\ included_files_absolute_paths' = {root}
                   /\ pc' = "ready"
                   /\ UNCHANGED error
              ELSE /\ pc' = "failed"
                   /\ error' = [exception |-> "OS not supported", nested |-> FALSE]
                   /\ UNCHANGED <<included_packages_names,
                                  included_files_absolute_paths>>

\* Resolver(root_filepath=root, target_os=target); the listed programs are
\* given their root file
Construct(root, target) ==
    /\ pc = "new"
    /\ program # "code" => root \in {MainPy, MainPyRelative}
    /\ ResolverInit(root, target)
    /\ UNCHANGED <<env, code_file, bytecode, folder_calls, stack, walks, call>>

(***************************************************************************)
(* Resolver.from_code and Resolver.write_code_file                         *)
(***************************************************************************)
\* the directories a caller names, None being the default
Dirpaths == {None, Some(<<N("job")>>)}

\* the file write_code_file writes (the directories are made as needed):
\* its path, which is what the call returns, and its contents
write_code_file(code, filename, dirpath) ==
    [path |-> Join(serverless_pack_root_folder,
                   <<N("dist")>> \o (IF dirpath = None THEN <<>> ELSE Get(dirpath))
                       \o <<filename>>),
     code |-> code]

\* Resolver.from_code(code, target_os, dirpath): the file is written, then
\* the resolver is constructed with it as the root
FromCode(code, target, dirpath) ==
    /\ pc = "new"
    /\ program = "code"
    /\ LET written == write_code_file(code, F("temp_root", ".py"), dirpath)
       IN  /\ code_file' = Some(written)
           /\ ResolverInit(written.path, target)
    /\ UNCHANGED <<env, bytecode, folder_calls, stack, walks, call>>

(***************************************************************************)
(* Resolver._import_module                                                 *)
(***************************************************************************)
SourceSuffixes == {".py", ".pyc"}

\* whether an extension module exports the init function PyInit_<name> for
\* the last segment of the name it is loaded under: it exports the one of
\* its own name
ExportsInitFunction(location, module_path) ==
    /\ module_path # None
    /\ Len(Get(module_path)) > 0
    /\ Get(module_path)[Len(Get(module_path))] = location[Len(location)][1]

\* importlib.util.spec_from_file_location followed by module_from_spec: a
\* loader is chosen by the suffix of the location, which is not opened for
\* a source file and is loaded at once for an extension module, under the
\* name module_path: a missing file and a file without the init function
\* of that name are an ImportError, no name is a TypeError; the module's
\* __file__ is the location, made absolute (not normalised) by the newer
\* importlib
ModuleFromFileLocation(module_path, location) ==
    LET origin == IF absolute_origin THEN Join(Cwd, location) ELSE location
    IN  IF Suffix(location) \in SourceSuffixes
        THEN [kind |-> "module", file |-> Some(origin)]
        ELSE IF Len(location) > 0 /\ Suffix(location) = HostCompiledSuffix(system_os)
        THEN IF /\ IsFile(location, system_os)
                /\ ExportsInitFunction(location, module_path)
             THEN [kind |-> "module", file |-> Some(origin)]
             ELSE [kind |-> "raise", file |-> None]
        ELSE [kind |-> "none", file |-> None]

\* what _import_module returns once import_module has ended with `found`:
\* its module, the exception that is not caught, or what the fallback of the
\* file location gives
ImportedOrLoaded(found, module_name, filepath) ==
    CASE found.kind = "module" -> [kind |-> "module", file |-> Some(found.file)]
      [] found.kind = "builtin" -> [kind |-> "module", file |-> None]
      [] found.kind = "error" -> [kind |-> "raise", file |-> None]
      [] OTHER ->
            LET filepath_relative_to_current_module == RelPath(filepath, Argv0)
                module_path ==
                    _path_to_module_path(filepath_relative_to_current_module,
                                         module_name)
            IN  ModuleFromFileLocation(module_path,
                                       filepath_relative_to_current_module)

\* kind "module" with the module's __file__ (None for a built-in module),
\* "none" for a None result, "raise" for an exception that is not caught
_import_module(module_name, filepath) ==
    ImportedOrLoaded(ImportLibImportModule(module_name, system_os),
                     module_name, filepath)

(***************************************************************************)
(* Resolver.add_python_file                                                *)
(***************************************************************************)
\* as add_python_file, forgetting the files included before
add_python_file_forgetting(files, filepath) == {filepath}

\* as add_python_file, without the adjacent __init__.py
add_python_file_alone(files, filepath) == files \cup {filepath}

add_python_file(files, filepath) ==
    LET expected_init_filepath == Join(Dirname(filepath), <<F("__init__", ".py")>>)
        with_init ==
            IF /\ expected_init_filepath \notin files
               /\ Exists(expected_init_filepath, system_os)
            THEN files \cup {expected_init_filepath}
            ELSE files
    IN  with_init \cup {filepath}

(***************************************************************************)
(* Resolver.add_package_by_name                                            *)
(***************************************************************************)
\* as OsTargetSubstitution, going on with a binary that does not exist
OsTargetSubstitutionUnchecked(path) ==
    IF system_os = "windows" /\ Suffix(path) = ".pyd" /\ target_os = "linux"
    THEN [path |-> WithSuffix(path, ".so"), return |-> FALSE]
    ELSE [path |-> path, return |-> FALSE]

\* the substitution of the compiled suffix: the path to classify, and
\* whether the call returns because the target's binary is missing
OsTargetSubstitution(path) ==
    IF system_os = "windows" /\ Suffix(path) = ".pyd"
    THEN IF target_os = "linux"
         THEN [path |-> WithSuffix(path, ".so"),
               return |-> ~IsFile(WithSuffix(path, ".so"), system_os)]
         ELSE [path |-> path, return |-> FALSE]
    ELSE IF system_os = "linux" /\ PathEqualsStr(path, ".so")
    THEN IF target_os = "windows"
         THEN [path |-> WithSuffix(path, ".pyd"),
               return |-> ~IsFile(WithSuffix(path, ".pyd"), system_os)]
         ELSE [path |-> path, return |-> FALSE]
    ELSE [path |-> path, return |-> FALSE]

Outcome(outcome, path, dist) == [outcome |-> outcome, path |-> path, dist |-> dist]

\* as DistributionBranch, without the test of included_packages_names
DistributionBranchUnchecked(path, package_distribution_name) ==
    LET real_package_name_container == PackagesDistributions(package_distribution_name)
    IN  IF /\ real_package_name_container # None
           /\ Len(Get(real_package_name_container)) > 0
        THEN Outcome("new_distribution", path, Get(real_package_name_container)[1])
        ELSE Outcome("no_distribution", path, "")

\* the branch of the distribution of a file found inside site-packages
DistributionBranch(path, package_distribution_name) ==
    LET real_package_name_container == PackagesDistributions(package_distribution_name)
    IN  IF /\ real_package_name_container # None
           /\ Len(Get(real_package_name_container)) > 0
        THEN LET real_package_name == Get(real_package_name_container)[1]
             IN  IF real_package_name \notin included_packages_names
                 THEN Outcome("new_distribution", path, real_package_name)
                 ELSE Outcome("distribution_included", path, real_package_name)
        ELSE Outcome("no_distribution", path, "")

\* as LocalBranch, without the test of included_files_absolute_paths
LocalBranchUnchecked(path) == Outcome("new_local_file", path, "")

\* the branch of a standalone file
LocalBranch(path) ==
    IF path \notin included_files_absolute_paths
    THEN Outcome("new_local_file", path, "")
    ELSE Outcome("local_file_included", path, "")

\* the branch add_package_by_name takes with the module that _import_module
\* returned, and the path of the file it classifies
Classification(imported_package_module) ==
    IF imported_package_module.kind = "raise" THEN Outcome("raise", <<>>, "")
    ELSE IF imported_package_module.kind = "none"
    THEN Outcome("unresolved", <<>>, "")
    ELSE IF imported_package_module.file = None
    THEN Outcome("no_file", <<>>, "")
    ELSE
    LET imported_package_module_filepath ==
            AbsPath(_remove_junk_start_of_path(Get(imported_package_module.file)))
    IN  IF StrContains(imported_package_module_filepath,
                       python_base_libs_folder_path)
        THEN Outcome("base_lib", imported_package_module_filepath, "")
        ELSE
        LET adapted == OsTargetSubstitution(imported_package_module_filepath)
            package_distribution_name ==
                get_distribution_name_of_package(adapted.path)
        IN  IF adapted.return THEN Outcome("no_os_matching_file", adapted.path, "")
            ELSE IF package_distribution_name # None
            THEN DistributionBranch(adapted.path, Get(package_distribution_name))
            ELSE LocalBranch(adapted.path)

\* the path an import resolves to and the branch add_package_by_name takes
Resolution(package_name, current_filepath) ==
    Classification(_import_module(package_name, current_filepath))

(***************************************************************************)
(* Resolver.process_file: the call itself, on top of the calls `frames`    *)
(* that are still active, with `files` the included files at the call.     *)
(***************************************************************************)
\* as ProcessFile, parsing and walking a file whatever its suffix
ProcessFileWalkingAll(filepath, files, frames, dist) ==
    IF ~Exists(filepath, system_os)
    THEN /\ pc' = "failed"
         /\ error' = [exception |-> "Filepath does not exist",
                      nested |-> frames # <<>>]
         /\ stack' = <<>>
         /\ included_files_absolute_paths' = files
         /\ UNCHANGED walks
    ELSE /\ stack' = Append(frames, [file |-> filepath, pos |-> 0])
         /\ walks' = walks (+) SetToBag({[file |-> filepath, dist |-> dist]})
         /\ included_files_absolute_paths' =
                IF Suffix(filepath) = ".py" THEN files
                ELSE add_python_file(files, filepath)
         /\ pc' = "walking"
         /\ UNCHANGED error

ProcessFile(filepath, files, frames, dist) ==
    IF ~Exists(filepath, system_os)
    THEN /\ pc' = "failed"
         /\ error' = [exception |-> "Filepath does not exist",
                      nested |-> frames # <<>>]
         /\ stack' = <<>>
         /\ included_files_absolute_paths' = files
         /\ UNCHANGED walks
    ELSE IF Suffix(filepath) = ".py"
    THEN /\ stack' = Append(frames, [file |-> filepath, pos |-> 0])
         /\ walks' = walks (+) SetToBag({[file |-> filepath, dist |-> dist]})
         /\ included_files_absolute_paths' = files
         /\ pc' = "walking"
         /\ UNCHANGED error
    ELSE /\ included_files_absolute_paths' = add_python_file(files, filepath)
         /\ stack' = frames
         /\ pc' = IF frames = <<>> THEN "done" ELSE "walking"
         /\ UNCHANGED <<walks, error>>

\* the caller's process_file(root_filepath)
ProcessRootFile ==
    /\ pc = "ready"
    /\ ProcessFile(root_filepath, included_files_absolute_paths, <<>>, "")
    /\ UNCHANGED <<env, code_file, bytecode, folder_calls, root_filepath,
                   target_os, included_packages_names, call>>

\* what add_package_by_name does with the resolution `r` of the import,
\* `frames` being the calls that stay active: the distribution is recorded,
\* and the file the import resolved to is added and processed
AddResolved(r, frames) ==
    /\ included_packages_names' =
           IF r.outcome = "new_distribution"
           THEN included_packages_names \cup {r.dist}
           ELSE included_packages_names
    /\ CASE r.outcome = "raise" ->
               /\ pc' = "failed"
               /\ error' = [exception |-> "import_module", nested |-> TRUE]
               /\ stack' = <<>>
               /\ UNCHANGED <<included_files_absolute_paths, walks>>
         [] r.outcome = "new_distribution" ->
               ProcessFile(r.path, included_files_absolute_paths, frames, r.dist)
         [] r.outcome = "new_local_file" ->
               ProcessFile(r.path,
                           add_python_file(included_files_absolute_paths, r.path),
                           frames, "")
         [] OTHER ->
               /\ stack' = frames
               /\ UNCHANGED <<included_files_absolute_paths, pc, error, walks>>

\* one statement of the file on top of the stack: the handler's call of
\* add_package_by_name, up to the call of process_file it may end with
AddPackageByName(package_name) ==
    /\ pc = "walking"
    /\ stack # <<>>
    /\ HasNextImport(stack[Len(stack)])
    /\ package_name \in HandlerImportedNames(stack[Len(stack)])
    /\ bytecode' = bytecode \cup BytecodeWritten(package_name, system_os)
    /\ AddResolved(Resolution(package_name, stack[Len(stack)].file),
                   [stack EXCEPT ![Len(stack)] = NextStatement(@)])
    /\ UNCHANGED <<env, code_file, folder_calls, root_filepath, target_os,
                   call>>

\* the end of the loop over the statements of the file on top of the stack
ReturnFromFile ==
    /\ pc = "walking"
    /\ stack # <<>>
    /\ AtEndOfFile(stack[Len(stack)])
    /\ stack' = SubSeq(stack, 1, Len(stack) - 1)
    /\ pc' = IF Len(stack) = 1 THEN "done" ELSE "walking"
    /\ UNCHANGED <<env, code_file, bytecode, folder_calls, error,
                   root_filepath, target_os, included_files_absolute_paths,
                   included_packages_names, walks, call>>

(***************************************************************************)
(* Resolver.import_folder                                                  *)
(***************************************************************************)
\* the arguments a caller passes: a folder relative to the working
\* directory, the project folder, a folder that does not exist; the names
\* of folders and the suffixes of files to exclude, None being the default
\* of both parameters
FolderPaths == {<<N("pkg")>>, Proj, <<N("nosuch")>>}
ExcludedFoldersNames == {None, Some({}), Some({N("venv")})}
ExcludedFilesExtensions == {None, Some({}), Some({".py"})}

\* the files on disk in or below a folder
FilesUnder(folder) ==
    { f \in Disk(system_os) :
        Len(f) > Len(folder) /\ SubSeq(f, 1, Len(folder)) = folder }

\* the directories between a folder and a file below it
FoldersBetween(folder, f) == { f[k] : k \in (Len(folder) + 1)..(Len(f) - 1) }

\* os.walk(folderpath, topdown=True) with the names in dirs[:] filtered: the
\* files of the directories that are visited
WalkedFiles(folder, excluded_folders_names) ==
    { f \in FilesUnder(folder) :
        FoldersBetween(folder, f) \cap excluded_folders_names = {} }

\* os.path.join(root_dirpath, str(filename)): the folder as the caller wrote
\* it, followed by the path of the file inside it
ModuleFilepath(folderpath, f) ==
    Join(folderpath, SubSeq(f, Len(AbsPath(folderpath)) + 1, Len(f)))

\* add_python_file for each of a set of paths
RECURSIVE AddPythonFiles(_, _)
AddPythonFiles(files, filepaths) ==
    IF filepaths = {} THEN files
    ELSE LET filepath == CHOOSE x \in filepaths : TRUE
         IN  AddPythonFiles(add_python_file(files, filepath),
                            filepaths \ {filepath})

\* import_folder, called on a resolver between its other calls: `in None`
\* raises TypeError, for the folder names as soon as the folder has a
\* subdirectory, for the extensions as soon as a file is met
ImportFolder(folderpath, excluded_folders_names, excluded_files_extensions) ==
    /\ pc \in {"ready", "done"}
    /\ folder_calls < MaxImportFolderCalls
    /\ folder_calls' = folder_calls + 1
    /\ LET folder == AbsPath(folderpath)
           subdirs == UNION { FoldersBetween(folder, f) : f \in FilesUnder(folder) }
           visited ==
               IF excluded_folders_names = None THEN FilesUnder(folder)
               ELSE WalkedFiles(folder, Get(excluded_folders_names))
       IN  IF \/ excluded_folders_names = None /\ subdirs # {}
              \/ excluded_files_extensions = None /\ visited # {}
           THEN /\ pc' = "failed"
                /\ error' = [exception |-> "TypeError", nested |-> FALSE]
                /\ UNCHANGED included_files_absolute_paths
           ELSE /\ included_files_absolute_paths' =
                      AddPythonFiles(
                          included_files_absolute_paths,
                          { ModuleFilepath(folderpath, f) :
                              f \in { g \in visited :
                                        Suffix(g) \notin
                                            Get(excluded_files_extensions) } })
                /\ UNCHANGED <<pc, error>>
    /\ UNCHANGED <<env, code_file, bytecode, root_filepath, target_os,
                   included_packages_names, stack, walks, call>>

Next ==
    \/ \E root \in RootFilepaths, target \in TargetOsArguments :
            Construct(root, target)
    \/ \E code \in Codes, target \in TargetOsArguments, dirpath \in Dirpaths :
            FromCode(code, target, dirpath)
    \/ ProcessRootFile
    \/ \E folderpath \in FolderPaths,
          excluded_folders_names \in ExcludedFoldersNames,
          excluded_files_extensions \in ExcludedFilesExtensions :
            ImportFolder(folderpath, excluded_folders_names,
                         excluded_files_extensions)
    \/ \E package_name \in ModuleNames \cup ListedModuleNames :
            AddPackageByName(package_name)
    \/ ReturnFromFile

Spec == Init /\ [][Next]_vars

(***************************************************************************)
(* The static functions, called on their own: the arguments are drawn      *)
(* from bounded sets and the call returns the function's result.           *)
(***************************************************************************)
PathParts == {ROOT, DOTDOT, N("pkg"), N("sub")}
NameSegments == {"pkg", "sub", "mod", "other"}
\* the root is the first part of a path or none
BasePaths ==
    { path \in SeqsUpTo(PathParts, MaxPathParts) :
        \A k \in 2..Len(path) : path[k] # ROOT }
DottedNames == SeqsUpTo(NameSegments, MaxNameSegments) \ {<<>>}
\* the paths given to get_distribution_name_of_package
FilepathParts == {ROOT, N("site-packages"), N("requests"), F("six", ".py")}
PackageFilepaths ==
    { path \in SeqsUpTo(FilepathParts, MaxFilepathParts) :
        \A k \in 2..Len(path) : path[k] # ROOT }

StaticInit ==
    /\ system_os = "linux"
    /\ absolute_origin = TRUE
    /\ parents_have_parts \in BOOLEAN
    /\ cache_tag = IF parents_have_parts THEN "cpython-311" ELSE "cpython-313"
    /\ dont_write_bytecode = FALSE
    /\ program = "code"
    /\ code_file = None
    /\ bytecode = {}
    /\ pc = "new"
    /\ folder_calls = 0
    /\ error = NoError
    /\ root_filepath = <<>>
    /\ target_os = ""
    /\ included_files_absolute_paths = {}
    /\ included_packages_names = {}
    /\ stack = <<>>
    /\ walks = EmptyBag
    /\ \/ \E base_path \in BasePaths, module_name \in DottedNames :
            call = [function |-> "_path_to_module_path", base_path |-> base_path,
                    module_name |-> module_name, returned |-> FALSE,
                    result |-> None]
       \/ \E package_filepath \in PackageFilepaths :
            call = [function |-> "get_distribution_name_of_package",
                    base_path |-> package_filepath, module_name |-> <<>>,
                    returned |-> FALSE, result |-> None]

PathToModulePath ==
    /\ call.function = "_path_to_module_path"
    /\ ~call.returned
    /\ call' = [call EXCEPT !.returned = TRUE,
                            !.result = _path_to_module_path(call.base_path,
                                                            call.module_name)]
    /\ UNCHANGED <<env, code_file, bytecode, pc, folder_calls, error,
                   root_filepath, target_os, included_files_absolute_paths,
                   included_packages_names, stack, walks>>

\* the path argument is the field base_path of the call
GetDistributionNameOfPackage ==
    /\ call.function = "get_distribution_name_of_package"
    /\ ~call.returned
    /\ call' = [call EXCEPT !.returned = TRUE,
                            !.result = get_distribution_name_of_package(
                                           call.base_path)]
    /\ UNCHANGED <<env, code_file, bytecode, pc, folder_calls, error,
                   root_filepath, target_os, included_files_absolute_paths,
                   included_packages_names, stack, walks>>

StaticNext == PathToModulePath \/ GetDistributionNameOfPackage

StaticSpec == StaticInit /\ [][StaticNext]_vars

(***************************************************************************)
(* What the properties below speak of.                                     *)
(***************************************************************************)
Top == stack[Len(stack)]

RECURSIVE SumCopies(_)
SumCopies(S) ==
    IF S = {} THEN 0
    ELSE LET w == CHOOSE x \in S : TRUE
         IN  CopiesIn(w, walks) + SumCopies(S \ {w})

\* how often process_file walked a file for distribution D
DistributionWalks(D) == SumCopies({ w \in BagToSet(walks) : w.dist = D })

\* how often process_file walked the file on disk that `file` denotes
FileWalks(file) ==
    SumCopies({ w \in BagToSet(walks) : AbsPath(w.file) = AbsPath(file) })

\* the file the ambient loader finds for a name, if it finds one
LoadedFile(name) ==
    IF ImportLibImportModule(name, system_os).kind = "module"
    THEN Some(ImportLibImportModule(name, system_os).file)
    ELSE None

\* the distributions that own a file: those providing the folder that
\* follows a site-packages part of its path
OwningDistributions(file) ==
    { D \in DistributionNames :
        \E i \in 1..(Len(file) - 2) :
            /\ file[i] = N("site-packages")
            /\ PackagesDistributions(file[i + 1]) # None
            /\ D = Get(PackagesDistributions(file[i + 1]))[1] }

\* a path lies below a folder
Below(path, folder) ==
    Len(path) > Len(folder) /\ SubSeq(path, 1, Len(folder)) = folder

\* the folder of the standard library
BaseLibsFolder == <<ROOT, N("usr"), N("lib")>>

IncludedSets == <<included_files_absolute_paths, included_packages_names>>

(***************************************************************************)
(* C1.  For every distribution D, process_file is invoked through the      *)
(* distribution branch at most once, and an import of a module of a        *)
(* distribution that is already included changes neither the included      *)
(* files nor the included distributions.                                   *)
(***************************************************************************)
C1_LaterImportIsNoOp ==
    \A name \in ModuleNames \cup ListedModuleNames :
        ( /\ AddPackageByName(name)
          /\ LoadedFile(name) # None
          /\ OwningDistributions(Get(LoadedFile(name))) # {}
          /\ OwningDistributions(Get(LoadedFile(name))) \subseteq
                 included_packages_names )
        => UNCHANGED <<IncludedSets, walks>>

\* C1: no distribution is walked through the distribution branch more than
\* once, and a later import of a module of an included distribution changes
\* neither the included files nor the included distributions
C1_DistributionWalkedAtMostOnce ==
    /\ [](\A D \in DistributionNames : DistributionWalks(D) <= 1)
    /\ [][C1_LaterImportIsNoOp]_vars

\* the entry file of requests has imported requests.utils
C1_Witness ==
    /\ program = "scenario"
    /\ pc = "walking"
    /\ Top.file = RequestsInitPy
    /\ Top.pos = 1
    /\ DistributionWalks("requests") = 1

(***************************************************************************)
(* C3.  _path_to_module_path.                                              *)
(***************************************************************************)
\* the module name without its first segment and without the segments
\* after it that equal, position by position, the base path's parts after
\* the first one; a leading "." or ".." of the base path is dropped first
ExpectedModulePath(base_path, module_name) ==
    LET base == IF base_path # <<>> /\ base_path[1] \in {DOT, DOTDOT}
                THEN Tail(base_path) ELSE base_path
        rest == DropFirst(module_name)
        implied == CommonLen([i \in 1..Len(rest) |-> N(rest[i])], DropFirst(base))
    IN  IF base = <<>> THEN None
        ELSE Some(SubSeq(rest, implied + 1, Len(rest)))

Returned(base_path, module_name) ==
    /\ call.function = "_path_to_module_path"
    /\ call.returned
    /\ call.base_path = base_path
    /\ call.module_name = module_name

\* C3 as stated: for the base path "/pkg/sub" and the module name
\* "pkg.sub.mod" the result is "mod", and for "/pkg" and "other.mod" it is
\* "other.mod"
C3_AsStated ==
    /\ Returned(<<ROOT, N("pkg"), N("sub")>>, <<"pkg", "sub", "mod">>)
            => call.result = Some(<<"mod">>)
    /\ Returned(<<ROOT, N("pkg")>>, <<"other", "mod">>)
            => call.result = Some(<<"other", "mod">>)

\* C3 as amended: the first segment of the module name is always dropped,
\* the first part of the base path (the root "/" of an absolute path) is
\* taken for the package without being compared, and the following segments
\* are dropped while they equal the base path's following parts: "pkg/sub"
\* and "pkg.sub.mod" give "mod", "/pkg/sub" and "pkg.sub.mod" give
\* "sub.mod", "/pkg" and "other.mod" give "mod"
C3_PathToModulePath ==
    /\ (call.function = "_path_to_module_path" /\ call.returned)
            => call.result = ExpectedModulePath(call.base_path, call.module_name)
    /\ Returned(<<N("pkg"), N("sub")>>, <<"pkg", "sub", "mod">>)
            => call.result = Some(<<"mod">>)
    /\ Returned(<<ROOT, N("pkg"), N("sub")>>, <<"pkg", "sub", "mod">>)
            => call.result = Some(<<"sub", "mod">>)
    /\ Returned(<<ROOT, N("pkg")>>, <<"other", "mod">>)
            => call.result = Some(<<"mod">>)

C3_Witness ==
    /\ Returned(<<ROOT, N("pkg"), N("sub")>>, <<"pkg", "sub", "mod">>)
    /\ call.result = Some(<<"sub", "mod">>)

(***************************************************************************)
(* C2.  Once the calls have returned, every distribution whose entry file   *)
(* was resolved is included and that entry file is an included file; the   *)
(* scenario ends with the root, helpers.py and the entry file of requests  *)
(* as the included files and requests as the only distribution.            *)
(***************************************************************************)
AnImport(name) == name \in ModuleNames \cup ListedModuleNames /\ AddPackageByName(name)

C2_AsStated ==
    pc = "done" =>
        /\ \A w \in BagToSet(walks) :
                w.dist # "" => /\ w.dist \in included_packages_names
                               /\ w.file \in included_files_absolute_paths
        /\ program = "scenario" =>
                /\ included_files_absolute_paths =
                       {root_filepath, HelpersPy, RequestsInitPy}
                /\ included_packages_names = {"requests"}

(***************************************************************************)
(* C4.  With the host and the target two different supported systems, no   *)
(* file with the host's compiled suffix is an included file.               *)
(***************************************************************************)
C4_NoHostBinaryWhenCrossBuilding ==
    ( /\ pc \in {"walking", "done"}
      /\ system_os \in TARGETS_OS
      /\ target_os \in TARGETS_OS
      /\ system_os # target_os )
    => \A f \in included_files_absolute_paths :
            Suffix(f) # OS_TO_COMPILED_EXTENSIONS(system_os)

(***************************************************************************)
(* C5.  On windows for linux, an import that resolves to a .pyd file with  *)
(* no .so file of the same name beside it returns without walking a file   *)
(* and leaves the included files and distributions as they were.           *)
(***************************************************************************)
C5_Step ==
    \A name \in ModuleNames \cup ListedModuleNames :
        ( /\ AnImport(name)
          /\ system_os = "windows"
          /\ target_os = "linux"
          /\ LoadedFile(name) # None
          /\ Suffix(Get(LoadedFile(name))) = ".pyd"
          /\ WithSuffix(Get(LoadedFile(name)), ".so") \notin Disk(system_os) )
        => /\ UNCHANGED <<IncludedSets, walks, pc, error>>
           /\ Len(stack') = Len(stack)

\* C5: every such import is a step that changes neither set, walks nothing
\* and raises nothing
C5_NoPlatformMatchChangesNothing == [][C5_Step]_vars

\* the root of the program "native" has imported fast.core, whose .so is
\* there, and solo.native, whose .so is not
C5_Witness ==
    /\ program = "native"
    /\ system_os = "windows"
    /\ target_os = "linux"
    /\ pc = "walking"
    /\ Top.pos = 2
    /\ included_files_absolute_paths = {root_filepath, FastCore(".so")}

(***************************************************************************)
(* C6.  The construction of a resolver and the walk that process_file      *)
(* starts raise nothing but the unsupported-system error of the            *)
(* constructor and the missing-file error for the file the caller asked    *)
(* process_file to process.                                                *)
(***************************************************************************)
C6_OnlyTheTwoFatalErrors ==
    (pc = "failed" /\ error.exception # "TypeError") =>
        \/ error.exception = "OS not supported"
        \/ error.exception = "Filepath does not exist" /\ ~error.nested

(***************************************************************************)
(* C7.  When a run completes, every source file that import resolution    *)
(* put into the included files has been walked.  Without a call of         *)
(* import_folder every included file but the root was put there by import  *)
(* resolution.                                                             *)
(***************************************************************************)
C7_IncludedSourcesAreWalked ==
    (pc = "done" /\ folder_calls = 0) =>
        \A f \in included_files_absolute_paths \ {root_filepath} :
            Suffix(f) = ".py" => FileWalks(f) >= 1

(***************************************************************************)
(* C8.  No file is walked more than once in a run.                         *)
(***************************************************************************)
C8_NoFileWalkedTwice ==
    \A w \in BagToSet(walks) : FileWalks(w.file) <= 1

(***************************************************************************)
(* C9.  No path below the folder of the standard library is added to the   *)
(* included files, and no file below it is walked.                         *)
(***************************************************************************)
C9_NoBaseLibFile ==
    /\ \A f \in included_files_absolute_paths \ {root_filepath} :
            ~Below(AbsPath(f), BaseLibsFolder)
    /\ \A w \in BagToSet(walks) : ~Below(AbsPath(w.file), BaseLibsFolder)

\* the root of the scenario has imported os
C9_Witness ==
    /\ program = "scenario"
    /\ pc = "walking"
    /\ Len(stack) = 1
    /\ Top.pos = 1
    /\ included_files_absolute_paths = {root_filepath}
    /\ BagToSet(walks) = {[file |-> root_filepath, dist |-> ""]}

(***************************************************************************)
(* C10.  For every file that import resolution added to the included       *)
(* files, the __init__.py of its directory, if there is one on disk, is an *)
(* included file too.                                                      *)
(***************************************************************************)
InitBeside(f) == Dirname(f) \o <<F("__init__", ".py")>>

\* C10: in every state, each included file other than the root has the
\* __init__.py that exists in its directory among the included files
C10_AdjacentInitIncluded ==
    \A f \in included_files_absolute_paths \ {root_filepath} :
        AbsPath(InitBeside(f)) \in Disk(system_os)
            => InitBeside(f) \in included_files_absolute_paths

\* pkg/mod.py was imported, pkg/__init__.py never was
C10_Witness ==
    /\ PkgModPy \in included_files_absolute_paths
    /\ PkgInitPy \in included_files_absolute_paths
    /\ FileWalks(PkgModPy) = 1
    /\ FileWalks(PkgInitPy) = 0

(***************************************************************************)
(* C11.  Resolving the same import a second time, right after the first    *)
(* call has returned, changes neither set and walks no file.               *)
(***************************************************************************)
\* whether add_package_by_name(name, file) adds nothing and walks nothing
\* when the included files and distributions are `files` and `dists`: the
\* import is not resolved to a file that is classified, or what it is
\* classified as is included
IsNoOp(name, file, files, dists) ==
    LET r == Resolution(name, file)
    IN  CASE r.outcome \in {"new_distribution", "distribution_included"} ->
                r.dist \in dists
          [] r.outcome \in {"new_local_file", "local_file_included"} ->
                r.path \in files
          [] r.outcome = "raise" -> FALSE
          [] OTHER -> TRUE

\* a call that returns within the step leaves a state in which the same call
\* is a no-op, and the second statement of a pair of the program "twice"
\* changes nothing
C11_ReturnedAtOnce ==
    \A name \in ModuleNames \cup ListedModuleNames :
        (pc = "walking" /\ pc' = "walking" /\ AnImport(name)) =>
            /\ Len(stack') = Len(stack)
                    => IsNoOp(name, Top.file, included_files_absolute_paths',
                              included_packages_names')
            /\ (program = "twice" /\ Len(stack) = 1 /\ Top.pos % 2 = 1)
                    => UNCHANGED <<IncludedSets, walks, error>>

\* a call that walked a file returns when that walk ends; every call from
\* the importing file that resolves to the walked file is then a no-op
C11_ReturnedFromWalk ==
    (ReturnFromFile /\ Len(stack) > 1) =>
        \A name \in ModuleNames \cup ListedModuleNames :
            Resolution(name, stack[Len(stack) - 1].file).path = Top.file
                => IsNoOp(name, stack[Len(stack) - 1].file,
                          included_files_absolute_paths',
                          included_packages_names')

\* C11: a call of add_package_by_name that follows at once a call with the
\* same arguments that returned normally leaves the included files and
\* distributions unchanged and walks no file
C11_SameImportTwiceIsIdempotent ==
    [][C11_ReturnedAtOnce /\ C11_ReturnedFromWalk]_vars

\* the root of the program "twice" has imported a local file, a
\* distribution and an extension module without the target's binary, each
\* two times
C11_Witness ==
    /\ program = "twice"
    /\ system_os = "windows"
    /\ target_os = "linux"
    /\ pc = "walking"
    /\ Len(stack) = 1
    /\ Top.pos = 6
    /\ included_files_absolute_paths = {root_filepath, HelpersPy}
    /\ included_packages_names = {"requests"}
    /\ FileWalks(HelpersPy) = 1
    /\ DistributionWalks("requests") = 1

(***************************************************************************)
(* C12.  The included files and the included distributions only grow, and  *)
(* the root file is an included file from the construction on.             *)
(***************************************************************************)
C12_Step ==
    /\ included_files_absolute_paths \subseteq included_files_absolute_paths'
    /\ included_packages_names \subseteq included_packages_names'

Constructed == pc # "new" /\ error.exception # "OS not supported"

\* C12: every step of every operation leaves each of the two sets a
\* superset of what it was, and in every state of a constructed resolver
\* the root file is an included file
C12_SetsOnlyGrow ==
    /\ [][C12_Step]_vars
    /\ [](Constructed => root_filepath \in included_files_absolute_paths)

\* a walk that included a local file and a distribution, followed by
\* import_folder
C12_Witness ==
    /\ pc = "done"
    /\ folder_calls = 1
    /\ walks # EmptyBag
    /\ included_packages_names # {}
    /\ HelpersPy \in included_files_absolute_paths
    /\ PkgSchema \in included_files_absolute_paths
    /\ root_filepath \in included_files_absolute_paths

(***************************************************************************)
(* C13.  The constructor fails, before the included sets exist and before  *)
(* anything is walked, whenever the effective target system is not windows *)
(* or linux, the host system being the default; a constructed resolver has *)
(* one of the two as its target.                                           *)
(***************************************************************************)
\* what a constructor call with a target leaves
C13_Outcome(target) ==
    LET effective == IF target = None THEN system_os ELSE Get(target)
    IN  IF effective \in {"windows", "linux"}
        THEN /\ pc' = "ready"
             /\ target_os' = effective
        ELSE /\ pc' = "failed"
             /\ error'.exception = "OS not supported"
             /\ included_files_absolute_paths' = {}
             /\ included_packages_names' = {}
             /\ walks' = EmptyBag
             /\ stack' = <<>>

C13_Step ==
    pc = "new" =>
        \A target \in TargetOsArguments :
            /\ \A root \in RootFilepaths :
                    Construct(root, target) => C13_Outcome(target)
            /\ \A written \in code_file', dirpath \in Dirpaths :
                    FromCode(written.code, target, dirpath)
                        => C13_Outcome(target)

\* C13: a constructor call with an unsupported effective target fails with
\* nothing included and nothing walked, and in every state of a constructed
\* resolver the target is windows or linux
C13_UnsupportedTargetFailsConstruction ==
    /\ [][C13_Step]_vars
    /\ [](Constructed => target_os \in {"windows", "linux"})
    /\ [](error.exception = "OS not supported" =>
            /\ pc = "failed"
            /\ target_os \notin {"windows", "linux"}
            /\ included_files_absolute_paths = {}
            /\ walks = EmptyBag)

\* no target was given or the host's was, and the host is not supported
C13_Witness ==
    /\ pc = "failed"
    /\ error.exception = "OS not supported"
    /\ system_os = "darwin"
    /\ target_os = system_os
    /\ included_files_absolute_paths = {}

(***************************************************************************)
(* C14.  Every included file is an absolute path, and no two included      *)
(* files denote the same file on disk.                                     *)
(***************************************************************************)
C14_OneAbsoluteEntryPerFile ==
    /\ \A f \in included_files_absolute_paths : IsAbs(f)
    /\ \A f, g \in included_files_absolute_paths :
            AbsPath(f) = AbsPath(g) => f = g

(***************************************************************************)
(* C15.  For a path with a part "site-packages" that is not its last part, *)
(* get_distribution_name_of_package returns the part that follows the      *)
(* first such part.                                                        *)
(***************************************************************************)
\* the positions of the part "site-packages" in a path
MarkerPositions(path) == { i \in 1..Len(path) : path[i] = N("site-packages") }
FirstMarker(path) ==
    CHOOSE i \in MarkerPositions(path) : \A j \in MarkerPositions(path) : i <= j

C15_AsStated ==
    (call.function = "get_distribution_name_of_package" /\ call.returned) =>
        LET path == call.base_path
        IN  (MarkerPositions(path) # {} /\ FirstMarker(path) < Len(path))
                => call.result = Some(path[FirstMarker(path) + 1])

(***************************************************************************)
(* C16.  Putting ".." parts in front of a base path does not change the    *)
(* result of _path_to_module_path.                                         *)
(***************************************************************************)
RECURSIVE WithoutLeadingDots(_)
WithoutLeadingDots(path) ==
    IF path # <<>> /\ Head(path) \in {DOT, DOTDOT}
    THEN WithoutLeadingDots(Tail(path))
    ELSE path

C16_LeadingDotsIgnored ==
    ( /\ call.function = "_path_to_module_path"
      /\ call.returned
      /\ WithoutLeadingDots(call.base_path) # <<>> )
    => call.result = _path_to_module_path(WithoutLeadingDots(call.base_path),
                                          call.module_name)

(***************************************************************************)
(* C17.  When the loader does not find a name and the fallback yields a    *)
(* module, the file that is classified is the file of the imported module  *)
(* and not the importing file.                                             *)
(***************************************************************************)
\* a path is the file of a module of that name: <name>.<suffix>, or the
\* __init__.py of a folder <name>
IsFileOfModule(path, module_name) ==
    LET last == module_name[Len(module_name)]
    IN  /\ Len(path) > 0
        /\ \/ path[Len(path)][1] = last
           \/ /\ Len(path) > 1
              /\ path[Len(path)] = F("__init__", ".py")
              /\ path[Len(path) - 1] = N(last)

C17_Step ==
    \A name \in ModuleNames \cup ListedModuleNames :
        ( /\ pc = "walking"
          /\ AnImport(name)
          /\ ImportLibImportModule(name, system_os).kind = "not_found"
          /\ _import_module(name, Top.file).kind = "module" )
        => /\ Resolution(name, Top.file).path # AbsPath(Top.file)
           /\ IsFileOfModule(Resolution(name, Top.file).path, name)

C17_FallbackClassifiesImportedFile == [][C17_Step]_vars

(***************************************************************************)
(* C18.  process_file on a file that is not a .py file adds it to the      *)
(* included files and walks nothing; only .py files are walked.            *)
(***************************************************************************)
C18_Step ==
    /\ ( /\ ProcessRootFile
         /\ Exists(root_filepath, system_os)
         /\ Suffix(root_filepath) # ".py" )
       => /\ root_filepath \in included_files_absolute_paths'
          /\ pc' = "done"
          /\ stack' = <<>>
          /\ UNCHANGED <<walks, included_packages_names, error>>
    /\ \A name \in ModuleNames \cup ListedModuleNames :
          ( /\ pc = "walking"
            /\ AnImport(name)
            /\ Resolution(name, Top.file).outcome \in
                   {"new_distribution", "new_local_file"}
            /\ Exists(Resolution(name, Top.file).path, system_os)
            /\ Suffix(Resolution(name, Top.file).path) # ".py" )
          => /\ Resolution(name, Top.file).path \in included_files_absolute_paths'
             /\ Len(stack') = Len(stack)
             /\ UNCHANGED <<walks, pc, error>>

\* C18: a process_file call on an existing file whose suffix is not .py
\* adds the file and returns at once, with no walk and no other change, and
\* every file that is ever walked has the suffix .py
C18_OnlySourceFilesAreWalked ==
    /\ [][C18_Step]_vars
    /\ [](/\ \A w \in BagToSet(walks) : Suffix(w.file) = ".py"
          /\ \A k \in 1..Len(stack) : Suffix(stack[k].file) = ".py")

\* process_file was called on the data file as the root
C18_Witness ==
    /\ root_filepath = DataTxt
    /\ pc = "done"
    /\ included_files_absolute_paths = {DataTxt}
    /\ included_packages_names = {}
    /\ walks = EmptyBag

(***************************************************************************)
(* C19.  import_folder adds no file in or below a subdirectory with an     *)
(* excluded name, adds every file of the other directories whose suffix is *)
(* not excluded, and neither parses a file nor changes the included        *)
(* distributions.                                                          *)
(***************************************************************************)
\* the list given for a parameter, the default None excluding nothing
Excluded(optional) == IF optional = None THEN {} ELSE Get(optional)

\* a file lies in or below a subdirectory of the folder that has one of the
\* names
InExcludedFolder(file, folder, names) ==
    /\ Below(file, folder)
    /\ \E k \in (Len(folder) + 1)..(Len(file) - 1) : file[k] \in names

\* every call of import_folder, the calls that leave a list at its default
\* None included
C19_Step ==
    folder_calls' # folder_calls =>
    \A folderpath \in FolderPaths, names \in ExcludedFoldersNames,
       extensions \in ExcludedFilesExtensions :
        ImportFolder(folderpath, names, extensions) =>
            /\ \A g \in included_files_absolute_paths' \
                        included_files_absolute_paths :
                    /\ Below(AbsPath(g), AbsPath(folderpath))
                    /\ ~InExcludedFolder(AbsPath(g), AbsPath(folderpath),
                                         Excluded(names))
            /\ \A f \in Disk(system_os) :
                    ( /\ Below(f, AbsPath(folderpath))
                      /\ ~InExcludedFolder(f, AbsPath(folderpath), Excluded(names))
                      /\ Suffix(f) \notin Excluded(extensions) )
                    => \E g \in included_files_absolute_paths' : AbsPath(g) = f
            /\ UNCHANGED <<included_packages_names, walks, stack, error>>

C19_ImportFolderPrunesAndAdds == [][C19_Step]_vars

(***************************************************************************)
(* C20.  import_folder adds no file whose suffix is one of the excluded    *)
(* extensions.                                                             *)
(***************************************************************************)
\* a call of import_folder that returns
AnImportOfFolder(folderpath, excluded_folders_names, excluded_files_extensions) ==
    /\ folderpath \in FolderPaths
    /\ excluded_folders_names \in ExcludedFoldersNames
    /\ excluded_files_extensions \in ExcludedFilesExtensions
    /\ ImportFolder(folderpath, excluded_folders_names, excluded_files_extensions)
    /\ pc' = pc

C20_Step ==
    (folder_calls' # folder_calls /\ pc' = pc) =>
    \A folderpath \in FolderPaths, names \in ExcludedFoldersNames,
       extensions \in ExcludedFilesExtensions :
        AnImportOfFolder(folderpath, names, extensions) =>
            \A g \in included_files_absolute_paths' \
                     included_files_absolute_paths :
                Suffix(g) \notin Excluded(extensions)

C20_NoExcludedExtensionAdded == [][C20_Step]_vars

====
